---- MODULE Spec2Model ----
(***************************************************************************)
(* NoteShare: the in-memory store (MemStorage) and the request handlers    *)
(* that drive it (registerRoutes, setupUploadRoutes).                      *)
(*                                                                         *)
(* Every handler and every storage method is an async function.  A call    *)
(* of an async function runs its body synchronously up to its first await; *)
(* an await suspends the caller, and other requests' continuations may run *)
(* before it resumes.  Each action below is one such run-to-suspension     *)
(* segment of one request: it is atomic, and the segments of different     *)
(* requests interleave freely.  A segment that touches no shared state     *)
(* (a bare return through an await) is folded into the segment before it.  *)
(***************************************************************************)
EXTENDS Integers, FiniteSets, Sequences, TLC

\* ---------------------------------------------------------------- bounds
MaxUsers == 2
MaxNotes == 2
MaxRequests == 2
MaxRacing == 3
MaxForum == 4
MaxCoins == 10
MaxPrice == 6
MaxTime == 1
MaxDiscussions == 2
MaxReplies == 2
MaxLimit == 3
MaxComments == 2
MaxPage == 2

\* ------------------------------------------------------ program constants
FreeUploadBonus == 5
PremiumUploadBonus == 10
DefaultLimit == 6

DefaultContributors == 4
DefaultPageLimit == 10
DefaultPage == 1

VARIABLES
    users,              \* MemStorage.users      : id -> User
    userOrder,          \* the ids of users in the Map's iteration order
    notes,              \* MemStorage.notes      : id -> Note
    downloads,          \* MemStorage.downloads  : id -> Download
    likes,              \* MemStorage.likes      : id -> Like
    follows,            \* MemStorage.follows    : id -> Follow
    currentUserId,
    currentNoteId,
    currentDownloadId,
    currentLikeId,
    currentFollowId,
    noteOrder,          \* the keys of MemStorage.notes in insertion order
    discussions,        \* MemStorage.discussions       : id -> Discussion
    discussionReplies,  \* MemStorage.discussionReplies : id -> DiscussionReply
    currentDiscussionId,
    currentDiscussionReplyId,
    comments,           \* MemStorage.comments   : id -> Comment
    currentCommentId,
    req,                \* the requests: position and local variables of each
    applied,            \* history: per user, the sum of the coin adjustments
                        \* whose updateUserCoins call has completed
    script,             \* the requests of a scripted run, in order; <<>> when
                        \* requests arrive with any input
    now                 \* the clock: what new Date() returns, in milliseconds;
                        \* it advances by the action Tick

forum == <<discussions, discussionReplies, currentDiscussionId,
           currentDiscussionReplyId>>

commentStore == <<comments, currentCommentId>>

store == <<users, userOrder, notes, noteOrder, downloads, likes, follows,
           currentUserId, currentNoteId, currentDownloadId, currentLikeId,
           currentFollowId, forum, commentStore>>

\* What the handlers read and never write.
env == <<script, now>>

vars == <<store, req, applied, env>>

Requests == DOMAIN req

\* The coinPrice values an upload may carry: insertNoteSchema takes any
\* integer, and one negative price stands for all of them.
Prices == -1..MaxPrice

\* ------------------------------------------------------- records, undefined
NoUser == [id |-> 0, coins |-> 0]
NoNote == [id |-> 0, userId |-> 0, isPremium |-> FALSE, coinPrice |-> 0,
           downloads |-> 0, likes |-> 0, createdAt |-> 0]
NoLike == [id |-> 0, noteId |-> 0, userId |-> 0]
NoFollow == [id |-> 0, followerId |-> 0, followedId |-> 0]
NoDiscussion == [id |-> 0, userId |-> 0, views |-> 0]

\* parentReplyId of a reply that answers the discussion itself: null.
NoParent == 0

IdleReq == [kind |-> "none", pc |-> "idle", userId |-> 0, noteId |-> 0,
            followedId |-> 0, note |-> NoNote, user |-> NoUser,
            snote |-> NoNote, suser |-> NoUser, delta |-> 0,
            existing |-> 0, status |-> 0, required |-> 0, available |-> 0,
            flag |-> FALSE, discussionId |-> 0, parentReplyId |-> NoParent,
            discussion |-> NoDiscussion, sdisc |-> NoDiscussion,
            limit |-> 0, result |-> <<>>, again |-> FALSE]

\* A Map with one entry set, and with one entry deleted.
MapSet(m, k, v) == [i \in DOMAIN m \cup {k} |-> IF i = k THEN v ELSE m[i]]

\* A delete that takes the entries set before the key with it.
MapDeleteUpTo(m, k) == [i \in {j \in DOMAIN m : j > k} |-> m[i]]

MapDelete(m, k) == [i \in DOMAIN m \ {k} |-> m[i]]

MinOf(S) == CHOOSE x \in S : \A y \in S : x <= y

\* The ids of the records of a listing.
IdsOf(listing) == {listing[i].id : i \in DOMAIN listing}

\* An allocator that is left as it was.
IncrementedNot(currentId) == currentId

\* const id = this.currentId++: the allocator after the id was taken.
Incremented(currentId) == currentId + 1

\* A set that moves a key that is present to the end, as delete and set do.
KeysAfterSetMoved(order, k) ==
    Append(SelectSeq(order, LAMBDA x : x # k), k)

\* The keys of a Map after set(k, v): a key that is present keeps its place
\* in the iteration order, a new key goes to the end.
KeysAfterSet(order, k) ==
    IF \E i \in DOMAIN order : order[i] = k THEN order ELSE Append(order, k)

\* ------------------------------------------------------------ storage reads
getUser(id) == IF id \in DOMAIN users THEN users[id] ELSE NoUser

getNoteById(id) == IF id \in DOMAIN notes THEN notes[id] ELSE NoNote

\* Array.from(likes.values()).find(...): the first match in insertion order,
\* which is id order because ids only grow.
LikeOf(lk, userId, noteId) ==
    LET hit == {i \in DOMAIN lk :
                   lk[i].userId = userId /\ lk[i].noteId = noteId}
    IN  IF hit = {} THEN NoLike ELSE lk[MinOf(hit)]

getLikeByUserAndNote(userId, noteId) == LikeOf(likes, userId, noteId)

getDiscussionById(id) ==
    IF id \in DOMAIN discussions THEN discussions[id] ELSE NoDiscussion

getFollowByIds(followerId, followedId) ==
    LET hit == {i \in DOMAIN follows :
                   follows[i].followerId = followerId
                   /\ follows[i].followedId = followedId}
    IN  IF hit = {} THEN NoFollow ELSE follows[MinOf(hit)]

\* ---------------------------------------------------------- note listings
\* Array.from(this.notes.values()): the notes in the Map's iteration order.
NoteValues == [i \in DOMAIN noteOrder |-> notes[noteOrder[i]]]

\* A sort that is not stable: elements with equal keys come out reversed.
SortDescByTiesReversed(s, key) ==
    LET Ahead(i) == {j \in DOMAIN s :
                        \/ key[j] > key[i]
                        \/ key[j] = key[i] /\ j > i}
    IN  [k \in DOMAIN s |->
            s[CHOOSE i \in DOMAIN s : Cardinality(Ahead(i)) = k - 1]]

\* array.sort((a, b) => key(b) - key(a)): descending by key, where key[i]
\* is the key of s[i].  The sort is stable: elements with equal keys keep
\* the order they had in s.  The element of s at index i comes after the
\* elements with a larger key and the elements with the same key and a
\* smaller index.
SortDescBy(s, key) ==
    LET Ahead(i) == {j \in DOMAIN s :
                        \/ key[j] > key[i]
                        \/ key[j] = key[i] /\ j < i}
    IN  [k \in DOMAIN s |->
            s[CHOOSE i \in DOMAIN s : Cardinality(Ahead(i)) = k - 1]]

\* A sort with the comparator's operands exchanged: newest first.
SortNewestFirst(s, key) == SortDescBy(s, key)

\* array.sort((a, b) => key(a) - key(b)): ascending by key, stable likewise.
SortAscBy(s, key) ==
    LET Ahead(i) == {j \in DOMAIN s :
                        \/ key[j] < key[i]
                        \/ key[j] = key[i] /\ j < i}
    IN  [k \in DOMAIN s |->
            s[CHOOSE i \in DOMAIN s : Cardinality(Ahead(i)) = k - 1]]

\* array.slice(0, limit), for a limit that is a count.
Slice(s, limit) == SubSeq(s, 1, IF limit < Len(s) THEN limit ELSE Len(s))

Score(note) == note.downloads + note.likes

CreatedAt(note) == note.createdAt

\* getAllNotes: sort by createdAt descending, slice(start, start + limit)
\* with start = (page - 1) * limit.
getAllNotes(page, limit) ==
    LET sorted == SortDescBy(NoteValues,
                             [i \in DOMAIN NoteValues |->
                                 CreatedAt(NoteValues[i])])
        start == (page - 1) * limit
        end == IF start + limit < Len(sorted) THEN start + limit
               ELSE Len(sorted)
    IN  SubSeq(sorted, start + 1, end)

\* getTrendingNotes: sort by (downloads + likes) descending, slice(0, limit)
getTrendingNotes(limit) ==
    Slice(SortDescBy(NoteValues,
                     [i \in DOMAIN NoteValues |-> Score(NoteValues[i])]),
          limit)

\* getRecentNotes: sort by createdAt descending, slice(0, limit)
getRecentNotes(limit) ==
    Slice(SortDescBy(NoteValues,
                     [i \in DOMAIN NoteValues |-> CreatedAt(NoteValues[i])]),
          limit)

\* Array.from(this.users.values()): the users in the Map's iteration order.
UserValues == [i \in DOMAIN userOrder |-> users[userOrder[i]]]

\* userUploads.get(user.id) || 0: the number of notes whose userId is the
\* user's id.
UploadCount(user) ==
    Cardinality({n \in DOMAIN notes : notes[n].userId = user.id})

\* getTopContributors: sort by uploadCount descending, slice(0, limit)
getTopContributors(limit) ==
    Slice(SortDescBy(UserValues,
                     [i \in DOMAIN UserValues |-> UploadCount(UserValues[i])]),
          limit)

\* const limit = Number(req.query.limit) || 4, for a query that gives a
\* count or nothing (0).
ContributorLimitOf(query) ==
    IF query = 0 THEN DefaultContributors ELSE query

\* const limit = Number(req.query.limit) || 10, likewise.
PageLimitOf(query) == IF query = 0 THEN DefaultPageLimit ELSE query

\* const limit = Number(req.query.limit) || 6, for a query that gives a
\* count or nothing (0).
LimitOf(query) == IF query = 0 THEN DefaultLimit ELSE query

\* ------------------------------------------------- storage record updates
\* updateUserCoins: { ...user, coins: user.coins + coins }
UpdatedCoins(user, coins) == [user EXCEPT !.coins = user.coins + coins]

\* updateNoteDownloads: { ...note, downloads: note.downloads + 1 }
UpdatedDownloads(note) == [note EXCEPT !.downloads = note.downloads + 1]

\* updateDiscussionViews: { ...discussion, views: discussion.views + 1 }
UpdatedViews(discussion) == [discussion EXCEPT !.views = discussion.views + 1]

\* updateNoteLikes: Math.max(0, increment ? likes + 1 : likes - 1)
UpdatedLikes(note, increment) ==
    LET updatedLikes == IF increment THEN note.likes + 1 ELSE note.likes - 1
    IN  [note EXCEPT !.likes = IF updatedLikes > 0 THEN updatedLikes ELSE 0]

\* createOrToggleLike: likes.delete(existingLike.id), or likes.set(id, like)
\* with the next id.  Deleting an id that is no longer there changes nothing.
ToggledLikes(lk, id, existing, userId, noteId) ==
    IF existing # 0 THEN MapDelete(lk, existing)
    ELSE MapSet(lk, id, [id |-> id, noteId |-> noteId, userId |-> userId])

\* updateNoteLikes after its read: notes.set(noteId, updatedNote); a note
\* that was not found makes it throw.
NotesAfterLikes(nt, snote, increment) ==
    IF snote = NoNote THEN nt
    ELSE MapSet(nt, snote.id, UpdatedLikes(snote, increment))

\* createOrToggleLike run from start to end with nothing interleaved, on the
\* likes, notes and like-id allocator st.
createOrToggleLike(st, userId, noteId) ==
    LET existing == LikeOf(st.likes, userId, noteId).id
        snote == IF noteId \in DOMAIN st.notes THEN st.notes[noteId]
                 ELSE NoNote
    IN  [likes |-> ToggledLikes(st.likes, st.currentLikeId, existing,
                                userId, noteId),
         currentLikeId |-> IF existing = 0
                           THEN Incremented(st.currentLikeId)
                           ELSE st.currentLikeId,
         notes |-> NotesAfterLikes(st.notes, snote, existing = 0)]

\* The two awards exchanged.
CoinsToAwardSwapped(isPremium) ==
    IF isPremium THEN FreeUploadBonus ELSE PremiumUploadBonus

\* createNote: const coinsToAward = note.isPremium ? 10 : 5
CoinsToAward(isPremium) ==
    IF isPremium THEN PremiumUploadBonus ELSE FreeUploadBonus

\* The check turned round.
InsufficientCoinsReversed(user, note) == user.coins > note.coinPrice

\* The check left out.
InsufficientCoinsNever(user, note) == FALSE

\* download handler: if (user.coins < note.coinPrice)
InsufficientCoins(user, note) == user.coins < note.coinPrice

\* The check left out.
IsSelfFollowNever(followerId, followedId) == FALSE

\* follow handler: if (followerId === followedId)
IsSelfFollow(followerId, followedId) == followerId = followedId

\* ------------------------------------------------------------------- Init
InitWith(n) ==
    /\ users = <<>>
    /\ notes = <<>>
    /\ userOrder = [i \in DOMAIN users |-> i]
    /\ noteOrder = <<>>
    /\ discussions = <<>>
    /\ discussionReplies = <<>>
    /\ currentDiscussionId = 1
    /\ currentDiscussionReplyId = 1
    /\ script = <<>>
    /\ now = 0
    /\ downloads = <<>>
    /\ likes = <<>>
    /\ follows = <<>>
    /\ comments = <<>>
    /\ currentCommentId = 1
    /\ currentUserId = 1
    /\ currentNoteId = 1
    /\ currentDownloadId = 1
    /\ currentLikeId = 1
    /\ currentFollowId = 1
    /\ req = [r \in 1..n |-> IdleReq]
    /\ applied = <<>>

\* The store as constructed, with MaxRequests requests yet to arrive.
Init == InitWith(MaxRequests)

\* The same store, with MaxRacing requests yet to arrive.
InitRacing == InitWith(MaxRacing)

\* The same store, with MaxForum requests yet to arrive at the forum.
InitForum == InitWith(MaxForum)

\* The store after user 1 has uploaded a premium note and then downloaded
\* it, paying its price out of the upload's award, with MaxRequests requests
\* yet to arrive.
InitAgain ==
    \E price \in 0..MaxPrice :
        /\ price <= PremiumUploadBonus
        /\ users = <<[id |-> 1, coins |-> PremiumUploadBonus - price]>>
        /\ applied = <<PremiumUploadBonus - price>>
        /\ notes = <<[id |-> 1, userId |-> 1, isPremium |-> TRUE,
                      coinPrice |-> price, downloads |-> 1, likes |-> 0,
                      createdAt |-> 0]>>
        /\ userOrder = [i \in DOMAIN users |-> i]
        /\ noteOrder = <<1>>
        /\ downloads = <<[id |-> 1, noteId |-> 1, userId |-> 1]>>
        /\ likes = <<>>
        /\ follows = <<>>
        /\ comments = <<>>
        /\ currentCommentId = 1
        /\ discussions = <<>>
        /\ discussionReplies = <<>>
        /\ currentUserId = 2
        /\ currentNoteId = 2
        /\ currentDownloadId = 2
        /\ currentLikeId = 1
        /\ currentFollowId = 1
        /\ currentDiscussionId = 1
        /\ currentDiscussionReplyId = 1
        /\ script = <<>>
        /\ req = [r \in 1..MaxRequests |-> IdleReq]
        /\ now = 0

\* The stores after every user has registered and one of them has uploaded
\* a free note; MaxRequests requests are yet to arrive.
InitContributors ==
    \E owner \in 1..MaxUsers :
        /\ users = [u \in 1..MaxUsers |->
                       [id |-> u,
                        coins |-> IF u = owner THEN FreeUploadBonus ELSE 0]]
        /\ applied = [u \in 1..MaxUsers |-> users[u].coins]
        /\ notes = <<[id |-> 1, userId |-> owner, isPremium |-> FALSE,
                      coinPrice |-> 0, downloads |-> 0, likes |-> 0,
                      createdAt |-> 0]>>
        /\ userOrder = [i \in DOMAIN users |-> i]
        /\ noteOrder = <<1>>
        /\ downloads = <<>>
        /\ likes = <<>>
        /\ follows = <<>>
        /\ comments = <<>>
        /\ currentCommentId = 1
        /\ discussions = <<>>
        /\ discussionReplies = <<>>
        /\ currentUserId = MaxUsers + 1
        /\ currentNoteId = 2
        /\ currentDownloadId = 1
        /\ currentLikeId = 1
        /\ currentFollowId = 1
        /\ currentDiscussionId = 1
        /\ currentDiscussionReplyId = 1
        /\ script = <<>>
        /\ req = [r \in 1..MaxRequests |-> IdleReq]
        /\ now = 0

\* The stores after every user has registered, MaxDiscussions discussions
\* have been opened and the first has got a reply; MaxRequests requests are
\* yet to arrive.
InitReplies ==
    /\ users = [u \in 1..MaxUsers |-> [id |-> u, coins |-> 0]]
    /\ applied = [u \in 1..MaxUsers |-> 0]
    /\ userOrder = [i \in DOMAIN users |-> i]
    /\ notes = <<>>
    /\ noteOrder = <<>>
    /\ downloads = <<>>
    /\ likes = <<>>
    /\ follows = <<>>
    /\ comments = <<>>
    /\ currentCommentId = 1
    /\ discussions = [d \in 1..MaxDiscussions |->
                         [id |-> d, userId |-> 1, views |-> 0]]
    /\ discussionReplies = <<[id |-> 1, discussionId |-> 1, userId |-> 1,
                              parentReplyId |-> NoParent, createdAt |-> 0]>>
    /\ currentUserId = MaxUsers + 1
    /\ currentNoteId = 1
    /\ currentDownloadId = 1
    /\ currentLikeId = 1
    /\ currentFollowId = 1
    /\ currentDiscussionId = MaxDiscussions + 1
    /\ currentDiscussionReplyId = 2
    /\ script = <<>>
    /\ req = [r \in 1..MaxRequests |-> IdleReq]
    /\ now = 0

\* The stores after user 1 has registered, has uploaded free note 1, has
\* liked it and has opened discussion 1; MaxRequests requests are yet to
\* arrive.
InitRecords ==
    /\ users = <<[id |-> 1, coins |-> FreeUploadBonus]>>
    /\ applied = <<FreeUploadBonus>>
    /\ userOrder = <<1>>
    /\ notes = <<[id |-> 1, userId |-> 1, isPremium |-> FALSE,
                  coinPrice |-> 0, downloads |-> 0, likes |-> 1,
                  createdAt |-> 0]>>
    /\ noteOrder = <<1>>
    /\ downloads = <<>>
    /\ likes = <<[id |-> 1, noteId |-> 1, userId |-> 1]>>
    /\ follows = <<>>
    /\ comments = <<>>
    /\ currentCommentId = 1
    /\ discussions = <<[id |-> 1, userId |-> 1, views |-> 0]>>
    /\ discussionReplies = <<>>
    /\ currentUserId = 2
    /\ currentNoteId = 2
    /\ currentDownloadId = 1
    /\ currentLikeId = 2
    /\ currentFollowId = 1
    /\ currentDiscussionId = 2
    /\ currentDiscussionReplyId = 1
    /\ script = <<>>
    /\ req = [r \in 1..MaxRequests |-> IdleReq]
    /\ now = 0

\* A like, a view of a discussion, or a comment, with its arguments.
RetryOps ==
    {[kind |-> k, userId |-> u, noteId |-> n, discussionId |-> 0] :
        k \in {"like", "comment"}, u \in 1..MaxUsers, n \in 1..MaxNotes}
    \cup {[kind |-> "view", userId |-> 0, noteId |-> 0, discussionId |-> d] :
              d \in 1..MaxDiscussions}

\* The stores after every user has registered, user 1 has uploaded free
\* note 1, has liked it or not, and has opened discussion 1.  The script is
\* one operation and its retry with the same arguments.
InitRetry ==
    \E op \in RetryOps, liked \in BOOLEAN :
        /\ users = [u \in 1..MaxUsers |->
                       [id |-> u,
                        coins |-> IF u = 1 THEN FreeUploadBonus ELSE 0]]
        /\ applied = [u \in 1..MaxUsers |-> users[u].coins]
        /\ userOrder = [i \in DOMAIN users |-> i]
        /\ notes = <<[id |-> 1, userId |-> 1, isPremium |-> FALSE,
                      coinPrice |-> 0, downloads |-> 0,
                      likes |-> IF liked THEN 1 ELSE 0, createdAt |-> 0]>>
        /\ noteOrder = <<1>>
        /\ downloads = <<>>
        /\ likes = IF liked THEN <<[id |-> 1, noteId |-> 1, userId |-> 1]>>
                   ELSE <<>>
        /\ follows = <<>>
        /\ comments = <<>>
        /\ currentCommentId = 1
        /\ discussions = <<[id |-> 1, userId |-> 1, views |-> 0]>>
        /\ discussionReplies = <<>>
        /\ currentUserId = MaxUsers + 1
        /\ currentNoteId = 2
        /\ currentDownloadId = 1
        /\ currentLikeId = IF liked THEN 2 ELSE 1
        /\ currentFollowId = 1
        /\ currentDiscussionId = 2
        /\ currentDiscussionReplyId = 1
        /\ script = <<op, op>>
        /\ req = [r \in DOMAIN script |-> IdleReq]
        /\ now = 0

\* The stores after user 1 has uploaded MaxNotes free notes, within
\* MaxTime milliseconds, and has downloaded some of them once; every user
\* is registered, and MaxRequests requests are yet to arrive.
InitListing ==
    \E times \in [1..MaxNotes -> 0..MaxTime], had \in SUBSET (1..MaxNotes) :
        /\ \A m \in 1..MaxNotes, n \in 1..MaxNotes :
               m < n => times[m] <= times[n]
        /\ users = [u \in 1..MaxUsers |->
                       [id |-> u,
                        coins |-> IF u = 1 THEN FreeUploadBonus * MaxNotes
                                  ELSE 0]]
        /\ applied = [u \in 1..MaxUsers |-> users[u].coins]
        /\ notes = [n \in 1..MaxNotes |->
                       [id |-> n, userId |-> 1, isPremium |-> FALSE,
                        coinPrice |-> 0,
                        downloads |-> IF n \in had THEN 1 ELSE 0,
                        likes |-> 0, createdAt |-> times[n]]]
        /\ userOrder = [i \in DOMAIN users |-> i]
        /\ noteOrder = [n \in 1..MaxNotes |-> n]
        /\ downloads =
               [d \in 1..Cardinality(had) |->
                   [id |-> d, userId |-> 1,
                    noteId |-> CHOOSE n \in had :
                                  Cardinality({m \in had : m < n}) = d - 1]]
        /\ likes = <<>>
        /\ follows = <<>>
        /\ comments = <<>>
        /\ currentCommentId = 1
        /\ discussions = <<>>
        /\ discussionReplies = <<>>
        /\ currentUserId = MaxUsers + 1
        /\ currentNoteId = MaxNotes + 1
        /\ currentDownloadId = Cardinality(had) + 1
        /\ currentLikeId = 1
        /\ currentFollowId = 1
        /\ currentDiscussionId = 1
        /\ currentDiscussionReplyId = 1
        /\ script = <<>>
        /\ req = [r \in 1..MaxRequests |-> IdleReq]
        /\ now = MaxTime

\* The requests of the run "A uploads a free note, B downloads it, C and
\* then D download A's premium note", for C and D registered with the coins
\* cCoins and dCoins.
ScenarioScript(cCoins, dCoins) ==
    << [kind |-> "upload", userId |-> 1, noteId |-> 2, coins |-> 0],
       [kind |-> "download", userId |-> 2, noteId |-> 2, coins |-> 0],
       [kind |-> "download", userId |-> 3, noteId |-> 1, coins |-> cCoins],
       [kind |-> "download", userId |-> 4, noteId |-> 1, coins |-> dCoins] >>

\* A store in which users A = 1, B = 2, C = 3 and D = 4 are registered, A
\* owns premium note 1, not yet downloaded, and holds no coins, C holds less
\* than its price and D at least its price; of the records of such a state
\* it holds the ones the run reads.  The scripted requests are yet to arrive.
InitScenario ==
    \E price \in 1..MaxPrice, cCoins \in 0..MaxCoins, dCoins \in 0..MaxCoins :
        /\ cCoins < price
        /\ dCoins >= price
        /\ users = <<[id |-> 1, coins |-> 0], [id |-> 2, coins |-> 0],
                     [id |-> 3, coins |-> cCoins], [id |-> 4, coins |-> dCoins]>>
        /\ applied = <<0, 0, cCoins, dCoins>>
        /\ notes = <<[id |-> 1, userId |-> 1, isPremium |-> TRUE,
                      coinPrice |-> price, downloads |-> 0, likes |-> 0,
                      createdAt |-> 0]>>
        /\ userOrder = [i \in DOMAIN users |-> i]
        /\ noteOrder = <<1>>
        /\ downloads = <<>>
        /\ likes = <<>>
        /\ follows = <<>>
        /\ comments = <<>>
        /\ currentCommentId = 1
        /\ discussions = <<>>
        /\ discussionReplies = <<>>
        /\ currentUserId = 5
        /\ currentNoteId = 2
        /\ currentDownloadId = 1
        /\ currentLikeId = 1
        /\ currentFollowId = 1
        /\ currentDiscussionId = 1
        /\ currentDiscussionReplyId = 1
        /\ script = ScenarioScript(cCoins, dCoins)
        /\ req = [r \in DOMAIN script |-> IdleReq]
        /\ now = 0

\* A request may start when every request before it has started.
CanStart(r) ==
    /\ req[r].pc = "idle"
    /\ \A q \in Requests : q < r => req[q].pc # "idle"

\* The answer is sent: the request's local variables are gone.
Finish(status, flag) ==
    [IdleReq EXCEPT !.pc = "done", !.status = status, !.flag = flag]

\* ------------------------------------------------------------ registration
\* createUser: a new user with the next id and no coins.
createUser ==
    /\ currentUserId <= MaxUsers
    /\ users' = MapSet(users, currentUserId, [id |-> currentUserId, coins |-> 0])
    /\ userOrder' = KeysAfterSet(userOrder, currentUserId)
    /\ applied' = MapSet(applied, currentUserId, 0)
    /\ currentUserId' = Incremented(currentUserId)
    /\ UNCHANGED <<notes, noteOrder, downloads, likes, follows,
                   currentNoteId, currentDownloadId, currentLikeId,
                   currentFollowId, req, forum, commentStore, env>>

\* ------------------------------------------------------- updateUserCoins
\* The call: const user = await this.getUser(userId) reads the user and
\* suspends.
CallUpdateUserCoins(q, userId, coins) ==
    [q EXCEPT !.suser = getUser(userId), !.delta = coins]

\* The continuation: users.set(userId, { ...user, coins: user.coins + coins }),
\* computed from the user read before the suspension.  A user that was not
\* found makes the call throw, and nothing is written.
UsersAfterUpdate(r) ==
    IF req[r].suser = NoUser THEN users
    ELSE MapSet(users, req[r].suser.id,
                UpdatedCoins(req[r].suser, req[r].delta))

\* users.set on the key of the user that was read.
UserKeysAfterUpdate(r) ==
    IF req[r].suser = NoUser THEN userOrder
    ELSE KeysAfterSet(userOrder, req[r].suser.id)

AppliedAfterUpdate(r) ==
    IF req[r].suser = NoUser THEN applied
    ELSE [applied EXCEPT ![req[r].suser.id] = @ + req[r].delta]

\* ---------------------------------------------------------------- upload
\* POST /api/notes -> createNote: allocates the id, stores the note with
\* createdAt = new Date() and calls updateUserCoins, which reads the uploader
\* and suspends.  A free note carries the schema's default coinPrice, 0.
UploadStart ==
  \E r \in Requests, u \in DOMAIN users, isPremium \in BOOLEAN,
     coinPrice \in Prices :
    /\ CanStart(r)
    /\ ~isPremium => coinPrice = 0
    /\ currentNoteId <= MaxNotes
    /\ notes' = MapSet(notes, currentNoteId,
                       [id |-> currentNoteId, userId |-> u,
                        isPremium |-> isPremium, coinPrice |-> coinPrice,
                        downloads |-> 0, likes |-> 0, createdAt |-> now])
    /\ noteOrder' = KeysAfterSet(noteOrder, currentNoteId)
    /\ currentNoteId' = Incremented(currentNoteId)
    /\ req' = [req EXCEPT ![r] =
                 CallUpdateUserCoins(
                     [IdleReq EXCEPT !.kind = "upload", !.pc = "up_coins",
                                     !.userId = u, !.noteId = currentNoteId],
                     u, CoinsToAward(isPremium))]
    /\ UNCHANGED <<users, userOrder, downloads, likes, follows, currentUserId,
                   currentDownloadId, currentLikeId, currentFollowId,
                   applied, forum, commentStore, env>>

\* createNote resumes inside updateUserCoins: the award is written.
UploadCoins ==
  \E r \in Requests :
    /\ req[r].pc = "up_coins"
    /\ users' = UsersAfterUpdate(r)
    /\ userOrder' = UserKeysAfterUpdate(r)
    /\ applied' = AppliedAfterUpdate(r)
    /\ req' = [req EXCEPT ![r] =
                 Finish(IF req[r].suser = NoUser THEN 500 ELSE 201, FALSE)]
    /\ UNCHANGED <<notes, noteOrder, downloads, likes, follows,
                   currentUserId, currentNoteId, currentDownloadId,
                   currentLikeId, currentFollowId, forum, commentStore, env>>

\* -------------------------------------------------------------- download
\* recordDownload up to its suspension: the Download record is stored, then
\* updateNoteDownloads reads the note and suspends.
RecordDownloadCall(r) ==
    /\ downloads' = MapSet(downloads, currentDownloadId,
                           [id |-> currentDownloadId,
                            noteId |-> req[r].noteId,
                            userId |-> req[r].userId])
    /\ currentDownloadId' = Incremented(currentDownloadId)
    /\ req' = [req EXCEPT ![r] =
                 [@ EXCEPT !.pc = "dl_count",
                           !.snote = getNoteById(req[r].noteId),
                           !.suser = NoUser, !.delta = 0, !.user = NoUser]]

\* The Download records of user u for note n.
DownloadsBy(u, n) ==
    {d \in DOMAIN downloads :
        downloads[d].userId = u /\ downloads[d].noteId = n}

\* POST /api/notes/:noteId/download: const note = await getNoteById(noteId).
\* again is history: whether the user has downloaded the note before; the
\* handler does not look.
DownloadStart ==
  \E r \in Requests, u \in DOMAIN users, n \in 1..MaxNotes :
    /\ CanStart(r)
    /\ req' = [req EXCEPT ![r] =
                 [IdleReq EXCEPT !.kind = "download", !.pc = "dl_note",
                                 !.userId = u, !.noteId = n,
                                 !.note = getNoteById(n),
                                 !.again = (DownloadsBy(u, n) # {})]]
    /\ UNCHANGED <<store, applied, env>>

\* The handler resumes with the note: 404, or the premium branch reads the
\* buyer, or the free branch goes straight to recordDownload.
DownloadNote ==
  \E r \in Requests :
    /\ req[r].pc = "dl_note"
    /\ IF req[r].note = NoNote
       THEN /\ req' = [req EXCEPT ![r] = Finish(404, FALSE)]
            /\ UNCHANGED <<downloads, currentDownloadId>>
       ELSE IF req[r].note.isPremium
       THEN /\ req' = [req EXCEPT ![r] =
                         [@ EXCEPT !.pc = "dl_check",
                                   !.user = getUser(req[r].userId)]]
            /\ UNCHANGED <<downloads, currentDownloadId>>
       ELSE RecordDownloadCall(r)
    /\ UNCHANGED <<users, userOrder, notes, noteOrder, likes, follows, currentUserId,
                   currentNoteId, currentLikeId, currentFollowId, applied,
                   forum, commentStore, env>>

\* The handler resumes with the buyer: 404, 403 with required and available,
\* or updateUserCoins(userId, -note.coinPrice) is called and suspends.
DownloadCheck ==
  \E r \in Requests :
    /\ req[r].pc = "dl_check"
    /\ req' = [req EXCEPT ![r] =
                 IF req[r].user = NoUser THEN Finish(404, FALSE)
                 ELSE IF InsufficientCoins(req[r].user, req[r].note)
                 THEN [Finish(403, FALSE) EXCEPT
                          !.required = req[r].note.coinPrice,
                          !.available = req[r].user.coins]
                 ELSE CallUpdateUserCoins([req[r] EXCEPT !.pc = "dl_debit"],
                                          req[r].userId,
                                          0 - req[r].note.coinPrice)]
    /\ UNCHANGED <<store, applied, env>>

\* updateUserCoins resumes: the debit is written.
DownloadDebit ==
  \E r \in Requests :
    /\ req[r].pc = "dl_debit"
    /\ users' = UsersAfterUpdate(r)
    /\ userOrder' = UserKeysAfterUpdate(r)
    /\ applied' = AppliedAfterUpdate(r)
    /\ req' = [req EXCEPT ![r] =
                 IF req[r].suser = NoUser THEN Finish(500, FALSE)
                 ELSE [@ EXCEPT !.pc = "dl_debited"]]
    /\ UNCHANGED <<notes, noteOrder, downloads, likes, follows,
                   currentUserId, currentNoteId, currentDownloadId,
                   currentLikeId, currentFollowId, forum, commentStore, env>>

\* The handler resumes after the debit: if (userId !== note.userId) the
\* credit's updateUserCoins is called and suspends; else recordDownload.
DownloadAfterDebit ==
  \E r \in Requests :
    /\ req[r].pc = "dl_debited"
    /\ IF req[r].userId # req[r].note.userId
       THEN /\ req' = [req EXCEPT ![r] =
                         CallUpdateUserCoins([req[r] EXCEPT !.pc = "dl_credit"],
                                             req[r].note.userId,
                                             req[r].note.coinPrice)]
            /\ UNCHANGED <<downloads, currentDownloadId>>
       ELSE RecordDownloadCall(r)
    /\ UNCHANGED <<users, userOrder, notes, noteOrder, likes, follows, currentUserId,
                   currentNoteId, currentLikeId, currentFollowId, applied,
                   forum, commentStore, env>>

\* updateUserCoins resumes: the credit to the note's owner is written.
DownloadCredit ==
  \E r \in Requests :
    /\ req[r].pc = "dl_credit"
    /\ users' = UsersAfterUpdate(r)
    /\ userOrder' = UserKeysAfterUpdate(r)
    /\ applied' = AppliedAfterUpdate(r)
    /\ req' = [req EXCEPT ![r] =
                 IF req[r].suser = NoUser THEN Finish(500, FALSE)
                 ELSE [@ EXCEPT !.pc = "dl_credited"]]
    /\ UNCHANGED <<notes, noteOrder, downloads, likes, follows,
                   currentUserId, currentNoteId, currentDownloadId,
                   currentLikeId, currentFollowId, forum, commentStore, env>>

\* The handler resumes after the credit and calls recordDownload.
DownloadAfterCredit ==
  \E r \in Requests :
    /\ req[r].pc = "dl_credited"
    /\ RecordDownloadCall(r)
    /\ UNCHANGED <<users, userOrder, notes, noteOrder, likes, follows, currentUserId,
                   currentNoteId, currentLikeId, currentFollowId, applied,
                   forum, commentStore, env>>

\* updateNoteDownloads resumes: notes.set(noteId, { ...note, downloads + 1 })
\* from the note read before the suspension; the handler then answers 200.
DownloadCount ==
  \E r \in Requests :
    /\ req[r].pc = "dl_count"
    /\ notes' = IF req[r].snote = NoNote THEN notes
                ELSE MapSet(notes, req[r].snote.id,
                            UpdatedDownloads(req[r].snote))
    /\ noteOrder' = IF req[r].snote = NoNote THEN noteOrder
                    ELSE KeysAfterSet(noteOrder, req[r].snote.id)
    /\ req' = [req EXCEPT ![r] =
                 Finish(IF req[r].snote = NoNote THEN 500 ELSE 200, FALSE)]
    /\ UNCHANGED <<users, userOrder, downloads, likes, follows, currentUserId,
                   currentNoteId, currentDownloadId, currentLikeId,
                   currentFollowId, applied, forum, commentStore, env>>

\* ------------------------------------------------------------------ like
\* POST /api/notes/:noteId/like: const note = await getNoteById(noteId)
LikeStart ==
  \E r \in Requests, u \in DOMAIN users, n \in 1..MaxNotes :
    /\ CanStart(r)
    /\ req' = [req EXCEPT ![r] =
                 [IdleReq EXCEPT !.kind = "like", !.pc = "lk_note",
                                 !.userId = u, !.noteId = n,
                                 !.note = getNoteById(n)]]
    /\ UNCHANGED <<store, applied, env>>

\* A like handler that goes on to createOrToggleLike without looking at
\* the note it read.
LikeNoteUnchecked ==
  \E r \in Requests :
    /\ req[r].pc = "lk_note"
    /\ req' = [req EXCEPT ![r] =
                 [@ EXCEPT !.pc = "lk_toggle",
                           !.existing =
                               getLikeByUserAndNote(req[r].userId,
                                                    req[r].noteId).id]]
    /\ UNCHANGED <<store, applied, env>>

\* The handler resumes with the note: 404, or createOrToggleLike is called,
\* whose getLikeByUserAndNote reads the existing like and suspends.
LikeNote ==
  \E r \in Requests :
    /\ req[r].pc = "lk_note"
    /\ req' = [req EXCEPT ![r] =
                 IF req[r].note = NoNote THEN Finish(404, FALSE)
                 ELSE [@ EXCEPT !.pc = "lk_toggle",
                                !.existing =
                                    getLikeByUserAndNote(req[r].userId,
                                                         req[r].noteId).id]]
    /\ UNCHANGED <<store, applied, env>>

\* createOrToggleLike resumes with existingLike: it deletes existingLike.id,
\* or stores a new Like under the next id; then updateNoteLikes reads the
\* note and suspends.
LikeToggle ==
  \E r \in Requests :
    /\ req[r].pc = "lk_toggle"
    /\ likes' = ToggledLikes(likes, currentLikeId, req[r].existing,
                             req[r].userId, req[r].noteId)
    /\ currentLikeId' = IF req[r].existing # 0 THEN currentLikeId
                        ELSE Incremented(currentLikeId)
    /\ req' = [req EXCEPT ![r] =
                 [@ EXCEPT !.pc = "lk_count",
                           !.flag = (req[r].existing = 0),
                           !.snote = getNoteById(req[r].noteId)]]
    /\ UNCHANGED <<users, userOrder, notes, noteOrder, downloads, follows,
                   currentUserId, currentNoteId, currentDownloadId,
                   currentFollowId, applied, forum, commentStore, env>>

\* updateNoteLikes resumes: notes.set(noteId, { ...note, likes }) from the
\* note read before the suspension; the handler answers { isLiked }.
LikeCount ==
  \E r \in Requests :
    /\ req[r].pc = "lk_count"
    /\ notes' = NotesAfterLikes(notes, req[r].snote, req[r].flag)
    /\ noteOrder' = IF req[r].snote = NoNote THEN noteOrder
                    ELSE KeysAfterSet(noteOrder, req[r].snote.id)
    /\ req' = [req EXCEPT ![r] =
                 Finish(IF req[r].snote = NoNote THEN 500 ELSE 200,
                        req[r].flag)]
    /\ UNCHANGED <<users, userOrder, downloads, likes, follows, currentUserId,
                   currentNoteId, currentDownloadId, currentLikeId,
                   currentFollowId, applied, forum, commentStore, env>>

\* ---------------------------------------------------------------- follow
\* POST /api/users/:userId/follow: the self-follow check answers 400 before
\* anything is awaited; otherwise getUser(followedId) is read and awaited.
FollowStart ==
  \E r \in Requests, u \in DOMAIN users, f \in 1..MaxUsers :
    /\ CanStart(r)
    /\ req' = [req EXCEPT ![r] =
                 LET q == [IdleReq EXCEPT !.kind = "follow", !.userId = u,
                                          !.followedId = f]
                 IN  IF IsSelfFollow(u, f)
                     THEN [q EXCEPT !.pc = "done", !.status = 400]
                     ELSE [q EXCEPT !.pc = "fo_user", !.user = getUser(f)]]
    /\ UNCHANGED <<store, applied, env>>

\* The handler resumes with followedUser: 404, or getFollowByIds is read and
\* awaited.
FollowUser ==
  \E r \in Requests :
    /\ req[r].pc = "fo_user"
    /\ req' = [req EXCEPT ![r] =
                 IF req[r].user = NoUser THEN Finish(404, FALSE)
                 ELSE [@ EXCEPT !.pc = "fo_toggle", !.user = NoUser,
                                !.existing =
                                    getFollowByIds(req[r].userId,
                                                   req[r].followedId).id]]
    /\ UNCHANGED <<store, applied, env>>

\* The handler resumes with existingFollow: removeFollow is called, whose
\* getFollowByIds reads again and suspends; or createFollow stores a new
\* Follow under the next id and the handler answers { following: true }.
FollowToggle ==
  \E r \in Requests :
    /\ req[r].pc = "fo_toggle"
    /\ IF req[r].existing # 0
       THEN /\ req' = [req EXCEPT ![r] =
                         [@ EXCEPT !.pc = "fo_remove",
                                   !.existing =
                                       getFollowByIds(req[r].userId,
                                                      req[r].followedId).id]]
            /\ UNCHANGED <<follows, currentFollowId>>
       ELSE /\ follows' = MapSet(follows, currentFollowId,
                                 [id |-> currentFollowId,
                                  followerId |-> req[r].userId,
                                  followedId |-> req[r].followedId])
            /\ currentFollowId' = Incremented(currentFollowId)
            /\ req' = [req EXCEPT ![r] = Finish(200, TRUE)]
    /\ UNCHANGED <<users, userOrder, notes, noteOrder, downloads, likes, currentUserId,
                   currentNoteId, currentDownloadId, currentLikeId, applied,
                   forum, commentStore, env>>

\* removeFollow resumes: if (follow) follows.delete(follow.id); the handler
\* answers { following: false }.
FollowRemove ==
  \E r \in Requests :
    /\ req[r].pc = "fo_remove"
    /\ follows' = IF req[r].existing # 0
                  THEN MapDelete(follows, req[r].existing) ELSE follows
    /\ req' = [req EXCEPT ![r] = Finish(200, FALSE)]
    /\ UNCHANGED <<users, userOrder, notes, noteOrder, downloads, likes, currentUserId,
                   currentNoteId, currentDownloadId, currentLikeId,
                   currentFollowId, applied, forum, commentStore, env>>

\* -------------------------------------------------------------- comments
\* The comments stored and the comments about to be stored.
CommentsUnderWay ==
    currentCommentId - 1
        + Cardinality({q \in Requests : req[q].pc = "cm_note"})

\* POST /api/notes/:noteId/comments: const note = await getNoteById(noteId)
CommentStart ==
  \E r \in Requests, u \in DOMAIN users, n \in 1..MaxNotes :
    /\ CanStart(r)
    /\ CommentsUnderWay < MaxComments
    /\ req' = [req EXCEPT ![r] =
                 [IdleReq EXCEPT !.kind = "comment", !.pc = "cm_note",
                                 !.userId = u, !.noteId = n,
                                 !.note = getNoteById(n)]]
    /\ UNCHANGED <<store, applied, env>>

\* The handler resumes with the note: 404, or insertCommentSchema parses the
\* body and createComment stores the comment under the next id; the handler
\* answers 201.
CommentCreate ==
  \E r \in Requests :
    /\ req[r].pc = "cm_note"
    /\ IF req[r].note = NoNote
       THEN /\ req' = [req EXCEPT ![r] = Finish(404, FALSE)]
            /\ UNCHANGED commentStore
       ELSE /\ comments' = MapSet(comments, currentCommentId,
                                  [id |-> currentCommentId,
                                   noteId |-> req[r].noteId,
                                   userId |-> req[r].userId,
                                   createdAt |-> now])
            /\ currentCommentId' = Incremented(currentCommentId)
            /\ req' = [req EXCEPT ![r] = Finish(201, FALSE)]
    /\ UNCHANGED <<users, userOrder, notes, noteOrder, downloads, likes,
                   follows, currentUserId, currentNoteId, currentDownloadId,
                   currentLikeId, currentFollowId, forum, applied, env>>

\* ----------------------------------------------------------------- forum
\* POST /api/discussions -> createDiscussion: the discussion is stored under
\* the next id with views 0 before anything is awaited; the handler answers
\* 201.
CreateDiscussion ==
  \E r \in Requests, u \in DOMAIN users :
    /\ CanStart(r)
    /\ currentDiscussionId <= MaxDiscussions
    /\ discussions' = MapSet(discussions, currentDiscussionId,
                             [id |-> currentDiscussionId, userId |-> u,
                              views |-> 0])
    /\ currentDiscussionId' = Incremented(currentDiscussionId)
    /\ req' = [req EXCEPT ![r] = Finish(201, FALSE)]
    /\ UNCHANGED <<users, userOrder, notes, noteOrder, downloads, likes, follows,
                   currentUserId, currentNoteId, currentDownloadId,
                   currentLikeId, currentFollowId, discussionReplies,
                   currentDiscussionReplyId, applied, commentStore, env>>

\* GET /api/discussions/:id: const discussion = await getDiscussionById(id)
ViewStart ==
  \E r \in Requests, d \in 1..MaxDiscussions :
    /\ CanStart(r)
    /\ req' = [req EXCEPT ![r] =
                 [IdleReq EXCEPT !.kind = "view", !.pc = "vw_disc",
                                 !.discussionId = d,
                                 !.discussion = getDiscussionById(d)]]
    /\ UNCHANGED <<store, applied, env>>

\* The handler resumes with the discussion: 404, or updateDiscussionViews is
\* called, whose getDiscussionById reads the discussion and suspends.
ViewFound ==
  \E r \in Requests :
    /\ req[r].pc = "vw_disc"
    /\ req' = [req EXCEPT ![r] =
                 IF req[r].discussion = NoDiscussion THEN Finish(404, FALSE)
                 ELSE [@ EXCEPT !.pc = "vw_count",
                                !.sdisc =
                                    getDiscussionById(req[r].discussionId)]]
    /\ UNCHANGED <<store, applied, env>>

\* updateDiscussionViews resumes: discussions.set(id, { ...discussion,
\* views + 1 }) from the discussion read before the suspension; the handler
\* answers 200 with the discussion it fetched first.
ViewCount ==
  \E r \in Requests :
    /\ req[r].pc = "vw_count"
    /\ discussions' = IF req[r].sdisc = NoDiscussion THEN discussions
                      ELSE MapSet(discussions, req[r].discussionId,
                                  UpdatedViews(req[r].sdisc))
    /\ req' = [req EXCEPT ![r] =
                 [Finish(IF req[r].sdisc = NoDiscussion THEN 500 ELSE 200,
                         FALSE)
                  EXCEPT !.kind = "view",
                         !.discussionId = req[r].discussionId]]
    /\ UNCHANGED <<users, userOrder, notes, noteOrder, downloads, likes, follows,
                   currentUserId, currentNoteId, currentDownloadId,
                   currentLikeId, currentFollowId, discussionReplies,
                   currentDiscussionId, currentDiscussionReplyId, applied,
                   commentStore, env>>

\* The replies stored and the replies about to be stored.
RepliesUnderWay ==
    currentDiscussionReplyId - 1
        + Cardinality({q \in Requests : req[q].pc = "rp_disc"})

\* POST /api/discussions/:discussionId/replies:
\* const discussion = await getDiscussionById(discussionId).  The body's
\* parentReplyId is absent or any integer.
ReplyStart ==
  \E r \in Requests, u \in DOMAIN users, d \in 1..MaxDiscussions,
     parent \in {NoParent} \cup (1..MaxReplies) :
    /\ CanStart(r)
    /\ RepliesUnderWay < MaxReplies
    /\ req' = [req EXCEPT ![r] =
                 [IdleReq EXCEPT !.kind = "reply", !.pc = "rp_disc",
                                 !.userId = u, !.discussionId = d,
                                 !.parentReplyId = parent,
                                 !.discussion = getDiscussionById(d)]]
    /\ UNCHANGED <<store, applied, env>>

\* The handler resumes with the discussion: 404, or insertDiscussionReplySchema
\* parses the body and createDiscussionReply stores the reply under the next
\* id; the handler answers 201.
ReplyCreate ==
  \E r \in Requests :
    /\ req[r].pc = "rp_disc"
    /\ IF req[r].discussion = NoDiscussion
       THEN /\ req' = [req EXCEPT ![r] = Finish(404, FALSE)]
            /\ UNCHANGED <<discussionReplies, currentDiscussionReplyId>>
       ELSE /\ discussionReplies' =
                   MapSet(discussionReplies, currentDiscussionReplyId,
                          [id |-> currentDiscussionReplyId,
                           discussionId |-> req[r].discussionId,
                           userId |-> req[r].userId,
                           parentReplyId |-> req[r].parentReplyId,
                           createdAt |-> now])
            /\ currentDiscussionReplyId' = Incremented(currentDiscussionReplyId)
            /\ req' = [req EXCEPT ![r] =
                         [Finish(201, FALSE)
                          EXCEPT !.kind = "reply",
                                 !.discussionId = req[r].discussionId,
                                 !.parentReplyId = req[r].parentReplyId]]
    /\ UNCHANGED <<users, userOrder, notes, noteOrder, downloads, likes, follows,
                   currentUserId, currentNoteId, currentDownloadId,
                   currentLikeId, currentFollowId, discussions,
                   currentDiscussionId, applied, commentStore, env>>

\* Array.from(this.discussionReplies.values()): a reply is set once, under
\* a new id, and none is deleted, so the Map iterates in id order.
ReplyValues == [i \in DOMAIN discussionReplies |-> discussionReplies[i]]

\* getDiscussionRepliesByDiscussionId: the replies of one discussion, sorted
\* by createdAt ascending.
getDiscussionRepliesByDiscussionId(discussionId) ==
    LET mine == SelectSeq(ReplyValues,
                          LAMBDA reply : reply.discussionId = discussionId)
    IN  SortAscBy(mine, [i \in DOMAIN mine |-> mine[i].createdAt])

\* GET /api/discussions/:discussionId/replies: the handler answers 200 with
\* the replies getDiscussionRepliesByDiscussionId returned.
DiscussionReplies ==
  \E r \in Requests, d \in 1..MaxDiscussions :
    /\ CanStart(r)
    /\ req' = [req EXCEPT ![r] =
                 [Finish(200, FALSE)
                  EXCEPT !.kind = "replies", !.discussionId = d,
                         !.result = getDiscussionRepliesByDiscussionId(d)]]
    /\ UNCHANGED <<store, applied, env>>

\* Time passes: new Date() returns a later time from now on.
Tick ==
    /\ now < MaxTime
    /\ now' = now + 1
    /\ UNCHANGED <<store, req, applied, script>>

\* --------------------------------------------------------------- listings
\* A trending listing that sorts the Map's own values, where the code sorts
\* the array Array.from built: the Map would iterate in the sorted order.
TrendingNotesInPlace ==
  \E r \in Requests, query \in 0..MaxLimit :
    /\ CanStart(r)
    /\ req' = [req EXCEPT ![r] =
                 [Finish(200, FALSE)
                  EXCEPT !.kind = "trending", !.limit = LimitOf(query),
                         !.result = getTrendingNotes(LimitOf(query))]]
    /\ noteOrder' = LET sorted == getTrendingNotes(Len(noteOrder))
                    IN  [i \in DOMAIN sorted |-> sorted[i].id]
    /\ UNCHANGED <<users, userOrder, notes, downloads, likes, follows,
                   currentUserId, currentNoteId, currentDownloadId,
                   currentLikeId, currentFollowId, forum, commentStore,
                   applied, env>>

\* GET /api/notes/trending: getTrendingNotes has no await of its own, and
\* the handler answers 200 with the notes it returned.
TrendingNotes ==
  \E r \in Requests, query \in 0..MaxLimit :
    /\ CanStart(r)
    /\ req' = [req EXCEPT ![r] =
                 [Finish(200, FALSE)
                  EXCEPT !.kind = "trending", !.limit = LimitOf(query),
                         !.result = getTrendingNotes(LimitOf(query))]]
    /\ UNCHANGED <<store, applied, env>>

\* GET /api/notes/recent: likewise, with getRecentNotes.
RecentNotes ==
  \E r \in Requests, query \in 0..MaxLimit :
    /\ CanStart(r)
    /\ req' = [req EXCEPT ![r] =
                 [Finish(200, FALSE)
                  EXCEPT !.kind = "recent", !.limit = LimitOf(query),
                         !.result = getRecentNotes(LimitOf(query))]]
    /\ UNCHANGED <<store, applied, env>>

\* GET /api/notes: likewise, with getAllNotes; const page =
\* Number(req.query.page) || 1.
AllNotes ==
  \E r \in Requests, query \in 0..MaxLimit, page \in 0..MaxPage :
    /\ CanStart(r)
    /\ req' = [req EXCEPT ![r] =
                 [Finish(200, FALSE)
                  EXCEPT !.kind = "all", !.limit = PageLimitOf(query),
                         !.result =
                             getAllNotes(IF page = 0 THEN DefaultPage
                                         ELSE page,
                                         PageLimitOf(query))]]
    /\ UNCHANGED <<store, applied, env>>

\* GET /api/contributors/top: likewise, with getTopContributors.
TopContributors ==
  \E r \in Requests, query \in 0..MaxLimit :
    /\ CanStart(r)
    /\ req' = [req EXCEPT ![r] =
                 [Finish(200, FALSE)
                  EXCEPT !.kind = "top", !.limit = ContributorLimitOf(query),
                         !.result =
                             getTopContributors(ContributorLimitOf(query))]]
    /\ UNCHANGED <<store, applied, env>>

\* ------------------------------------------------------- specifications
Next ==
    \/ createUser
    \/ UploadStart
    \/ UploadCoins
    \/ DownloadStart
    \/ DownloadNote
    \/ DownloadCheck
    \/ DownloadDebit
    \/ DownloadAfterDebit
    \/ DownloadCredit
    \/ DownloadAfterCredit
    \/ DownloadCount
    \/ LikeStart
    \/ LikeNote
    \/ LikeToggle
    \/ LikeCount
    \/ FollowStart
    \/ FollowUser
    \/ FollowToggle
    \/ FollowRemove

Spec == Init /\ [][Next]_vars

\* The same handlers with MaxRacing requests, for the interleavings that
\* need three requests in flight.
SpecRacing == InitRacing /\ [][Next]_vars

\* The same handlers, serving requests that arrive after a first premium
\* download.
SpecAgain == InitAgain /\ [][Next]_vars

\* The listings, among downloads and likes of free notes.
NextListing ==
    \/ TrendingNotes
    \/ RecentNotes
    \/ DownloadStart
    \/ DownloadNote
    \/ DownloadCount
    \/ LikeStart
    \/ LikeNote
    \/ LikeToggle
    \/ LikeCount

SpecListing == InitListing /\ [][NextListing]_vars

\* No request is under way.
Quiescent == \A r \in Requests : req[r].pc \in {"idle", "done"}

\* A scripted run: the next request of the script arrives when the one
\* before it has been answered, with the script's inputs.
ScriptedStart ==
  \E r \in DOMAIN script :
    /\ CanStart(r)
    /\ Quiescent
    /\ UploadStart \/ DownloadStart
    /\ req'[r].kind = script[r].kind
    /\ req'[r].userId = script[r].userId
    /\ req'[r].noteId = script[r].noteId
    /\ script[r].kind = "upload" => ~notes'[script[r].noteId].isPremium

NextScenario ==
    \/ ScriptedStart
    \/ UploadCoins
    \/ DownloadNote
    \/ DownloadCheck
    \/ DownloadDebit
    \/ DownloadAfterDebit
    \/ DownloadCredit
    \/ DownloadAfterCredit
    \/ DownloadCount

SpecScenario == InitScenario /\ [][NextScenario]_vars

\* The forum's handlers.  They share no state with the handlers of Next
\* but the users.
NextForum ==
    \/ createUser
    \/ CreateDiscussion
    \/ ViewStart
    \/ ViewFound
    \/ ViewCount
    \/ ReplyStart
    \/ ReplyCreate

SpecForum == InitForum /\ [][NextForum]_vars

\* The handlers that decide the contributors' ranking once the users have
\* registered: upload and the ranking itself.
NextContributors ==
    \/ UploadStart
    \/ UploadCoins
    \/ TopContributors

SpecContributors == InitContributors /\ [][NextContributors]_vars

\* Replying to the discussions and reading their replies, while time passes.
NextReplies ==
    \/ ReplyStart
    \/ ReplyCreate
    \/ DiscussionReplies
    \/ Tick

SpecReplies == InitReplies /\ [][NextReplies]_vars

\* An operation and its retry: the next request of the script arrives when
\* the one before it has been answered, with the script's arguments.
RetryStart ==
  \E r \in DOMAIN script :
    /\ CanStart(r)
    /\ Quiescent
    /\ LikeStart \/ CommentStart \/ ViewStart
    /\ req'[r].kind = script[r].kind
    /\ req'[r].userId = script[r].userId
    /\ req'[r].noteId = script[r].noteId
    /\ req'[r].discussionId = script[r].discussionId

NextRetry ==
    \/ RetryStart
    \/ LikeNote
    \/ LikeToggle
    \/ LikeCount
    \/ CommentCreate
    \/ ViewFound
    \/ ViewCount

SpecRetry == InitRetry /\ [][NextRetry]_vars

\* The queries over the notes and the users of a store that no request
\* changes.
NextQueries ==
    \/ TrendingNotes
    \/ RecentNotes
    \/ AllNotes
    \/ TopContributors

SpecQueries == InitListing /\ [][NextQueries]_vars

\* The handlers that create or remove records of any kind.
NextRecords ==
    \/ Next
    \/ CommentStart
    \/ CommentCreate
    \/ CreateDiscussion
    \/ ReplyStart
    \/ ReplyCreate

SpecRecords == InitRecords /\ [][NextRecords]_vars

\* ------------------------------------------------------------------ claims
DownloadsOf(n) == {d \in DOMAIN downloads : downloads[d].noteId = n}

LikesOf(n) == {l \in DOMAIN likes : likes[l].noteId = n}

\* C1: in every reachable state every user's coins is >= 0, also when
\* premium downloads by one buyer interleave between the balance check and
\* the debit.
C1_CoinsNeverNegative == \A u \in DOMAIN users : users[u].coins >= 0

\* C2: each note's downloads equals the number of Download records for it
\* and its likes equals the number of Like records for it.  The claim asks
\* this of every reachable state; it is stated here of the states in which
\* every request that arrived has been answered, the weakest reading.
C2_CountersMatchRecords ==
    Quiescent => \A n \in DOMAIN notes :
        /\ notes[n].downloads = Cardinality(DownloadsOf(n))
        /\ notes[n].likes = Cardinality(LikesOf(n))

\* C3: at most one Like record exists per (userId, noteId) pair in every
\* reachable state.
C3_OneLikePerPair ==
    \A i \in DOMAIN likes : \A j \in DOMAIN likes :
        (likes[i].userId = likes[j].userId /\ likes[i].noteId = likes[j].noteId)
            => i = j

\* The buyer, the seller and the price of download request r, once its
\* handler holds the note.
Buyer(r) == req[r].userId

Seller(r) == req[r].note.userId

Price(r) == req[r].note.coinPrice

\* Request r takes the step from position a to position b.
Moves(r, a, b) == req[r].pc = a /\ req'[r].pc = b

\* C4: a premium-download charge of price p from buyer b to seller s either
\* fails and leaves the balances unchanged, or decreases b's coins by
\* exactly p and, when b # s, increases s's coins by exactly p.
C4_ChargeIsExact ==
    [][\A r \in Requests :
          /\ Moves(r, "dl_debit", "dl_debited")
                => users'[Buyer(r)].coins = users[Buyer(r)].coins - Price(r)
          /\ Moves(r, "dl_credit", "dl_credited")
                => users'[Seller(r)].coins = users[Seller(r)].coins + Price(r)
          /\ (req[r].pc = "dl_check" /\ req'[r].status = 403)
                => users' = users]_vars

\* Request r has debited its buyer a positive price and has not yet credited
\* the seller, who is another user.
MidCharge(r) ==
    /\ req[r].pc \in {"dl_debited", "dl_credit"}
    /\ Buyer(r) # Seller(r)
    /\ Price(r) > 0

\* C5: the premium charge is atomic: no other request runs in a state in
\* which the buyer has been debited and the seller not yet credited.
C5_ChargeIsAtomic ==
    [][\A r \in Requests :
          MidCharge(r) =>
              \A q \in Requests \ {r} : req'[q] = req[q]]_vars

\* C6: a premium download by a buyer whose coins are less than the price
\* reads the buyer's balance, answers 403 with required = the price and
\* available = that balance, and changes nothing in the store in any of
\* its steps.
C6_InsufficientFundsChangesNothing ==
    [][\A r \in Requests :
          /\ (Moves(r, "idle", "dl_note") \/ Moves(r, "dl_note", "dl_check"))
                => UNCHANGED store
          /\ Moves(r, "dl_note", "dl_check")
                => req'[r].user = users[Buyer(r)]
          /\ (req[r].pc = "dl_check" /\ req'[r] # req[r]
              /\ req[r].user.coins < Price(r))
                => /\ req'[r].pc = "done"
                   /\ req'[r].status = 403
                   /\ req'[r].required = Price(r)
                   /\ req'[r].available = req[r].user.coins
                   /\ UNCHANGED store]_vars

\* A download was refused for want of coins.
C6_Witness ==
    \E r \in Requests :
        /\ req[r].pc = "done"
        /\ req[r].status = 403
        /\ req[r].available < req[r].required

\* C7: once every request has completed, each user's coins equal the
\* starting balance, 0, plus every credit and minus every debit applied to
\* that user.
C7_NoAdjustmentLost ==
    Quiescent => \A u \in DOMAIN users : users[u].coins = applied[u]

\* The like store of the current state.
LikeStore == [likes |-> likes, currentLikeId |-> currentLikeId, notes |-> notes]

\* C8: two toggleLike calls for one (noteId, userId), run one after the
\* other with nothing interleaved, leave the existence of the pair's Like
\* and the note's likes counter as they were.  The two calls start from a
\* state in which no other request is under way.
C8_ToggleTwiceRestores ==
    Quiescent => \A u \in DOMAIN users : \A n \in DOMAIN notes :
        LET twice == createOrToggleLike(createOrToggleLike(LikeStore, u, n),
                                        u, n)
        IN  /\ (LikeOf(twice.likes, u, n) = NoLike)
                   = (LikeOf(likes, u, n) = NoLike)
            /\ twice.notes[n].likes = notes[n].likes

\* C9: at most one Follow record exists per ordered pair (followerId,
\* followedId) in every reachable state.
C9_OneFollowPerPair ==
    \A i \in DOMAIN follows : \A j \in DOMAIN follows :
        (follows[i].followerId = follows[j].followerId
         /\ follows[i].followedId = follows[j].followedId) => i = j

\* No Follow record has followerId = followedId.
NoSelfFollowRecord ==
    \A i \in DOMAIN follows : follows[i].followerId # follows[i].followedId

\* C10: a follow request with followerId = followedId is answered 400 in
\* its first step, whatever the Follow set, and that step creates or removes
\* no Follow record; no Follow record with followerId = followedId exists
\* in any reachable state.
C10_SelfFollowRejected ==
    /\ []NoSelfFollowRecord
    /\ [][\A r \in Requests :
             (req[r].pc = "idle" /\ req'[r].kind = "follow"
              /\ req'[r].userId = req'[r].followedId)
                 => /\ req'[r].pc = "done"
                    /\ req'[r].status = 400
                    /\ UNCHANGED store]_vars

\* A self-follow request was made and answered.
C10_Witness ==
    \E r \in Requests :
        /\ req[r].kind = "follow"
        /\ req[r].userId = req[r].followedId
        /\ req[r].status = 400

\* Discussion d exists wherever reply i says its parent is.
ParentInDiscussion(i) ==
    LET reply == discussionReplies[i]
    IN  reply.parentReplyId # NoParent =>
            reply.parentReplyId \in
                IdsOf(getDiscussionRepliesByDiscussionId(reply.discussionId))

\* C11: every stored reply whose parentReplyId is set references an existing
\* reply of the same discussion, so the replies of a discussion never
\* include one whose parent lies outside it.
C11_ReplyParentInDiscussion ==
    \A i \in DOMAIN discussionReplies : ParentInDiscussion(i)

\* C17: the views of a discussion never decrease in any step.
C17_ViewsNeverDecrease ==
    [][\A d \in DOMAIN discussions :
          discussions'[d].views >= discussions[d].views]_vars

\* The view requests of discussion d that were answered 200.
ViewsCompleted(d) ==
    {r \in Requests : /\ req[r].pc = "done"
                      /\ req[r].kind = "view"
                      /\ req[r].status = 200
                      /\ req[r].discussionId = d}

\* C18: once every request has been answered, the views of each discussion
\* equal the number of completed fetches of it, in any interleaving.
C18_EveryFetchCounts ==
    Quiescent => \A d \in DOMAIN discussions :
        discussions[d].views = Cardinality(ViewsCompleted(d))

\* C12: creating a note credits its owner exactly 10 coins when the note is
\* premium and exactly 5 otherwise, and changes no other user's coins: the
\* step in which createNote's award is written raises the owner's coins by
\* that amount, and no step of an upload changes anything else in users.
C12_UploadAwardIsExact ==
    [][\A r \in Requests :
          /\ Moves(r, "idle", "up_coins") => users' = users
          /\ Moves(r, "up_coins", "done") =>
                LET owner == req[r].userId
                    award == CoinsToAward(notes[req[r].noteId].isPremium)
                IN  /\ users'[owner].coins = users[owner].coins + award
                    /\ \A v \in DOMAIN users \ {owner} :
                           users'[v] = users[v]]_vars

\* In the scripted run, request k has been answered and request k + 1 has
\* not arrived.
After(k) ==
    /\ req[k].pc = "done"
    /\ k + 1 \in Requests => req[k + 1].pc = "idle"

\* C13: the run in order: after A's upload of a free note A has 5 coins;
\* after B's download of it its downloads is 1 and A still has 5; C's
\* download of A's premium note is refused with 403, required = the price
\* and available = C's coins, and changes no balance and no counter; after
\* D's download D has paid the price, A has 5 + the price, and the premium
\* note's downloads is 1.  With price 5, C at 3 and D at 10: D has 5 and A
\* has 10.
C13_Scenario ==
    LET price == notes[1].coinPrice
    IN  /\ After(1) => /\ req[1].status = 201
                       /\ users[1].coins = 5
        /\ After(2) => /\ req[2].status = 200
                       /\ notes[2].downloads = 1
                       /\ users[1].coins = 5
        /\ After(3) => /\ req[3].status = 403
                       /\ req[3].required = price
                       /\ req[3].available = script[3].coins
                       /\ users[1].coins = 5
                       /\ users[3].coins = script[3].coins
                       /\ users[4].coins = script[4].coins
                       /\ notes[1].downloads = 0
                       /\ notes[2].downloads = 1
                       /\ Cardinality(DOMAIN downloads) = 1
        /\ After(4) => /\ req[4].status = 200
                       /\ users[4].coins = script[4].coins - price
                       /\ users[1].coins = 5 + price
                       /\ users[3].coins = script[3].coins
                       /\ notes[1].downloads = 1
                       /\ Cardinality(DownloadsOf(1)) = 1

\* The run of the claim has ended: the price was 5, C had 3 coins and D 10;
\* now D has 5 and A has 10.
C13_Witness ==
    /\ After(4)
    /\ notes[1].coinPrice = 5
    /\ script[3].coins = 3
    /\ script[4].coins = 10
    /\ users[4].coins = 5
    /\ users[1].coins = 10
    /\ notes[1].downloads = 1

\* Download request r is charging, or has charged, its buyer.
Charging(r) ==
    req[r].pc \in {"dl_debit", "dl_debited", "dl_credit", "dl_credited"}

\* C14: a negative price never reaches a balance: no premium note is stored
\* with coinPrice < 0, and no download charges a price < 0.
C14_NegativePriceRejected ==
    /\ \A n \in DOMAIN notes : notes[n].isPremium => notes[n].coinPrice >= 0
    /\ \A r \in Requests : Charging(r) => Price(r) >= 0

\* Request r arrives at position b in this step.
Reaches(r, b) == req[r].pc # b /\ req'[r].pc = b

\* C15: a Download record for a premium note is created only after the same
\* request has found the downloader's balance sufficient and has debited the
\* price from it: the record is stored in a step from "debited" or
\* "credited", by a request that read coins >= the price; "debited" is
\* reached only by the step that writes the debit, "credited" only after
\* it.  A request refused with 403 stores no Download, changes no note, and
\* takes no step afterwards.
C15_ChargeBeforeDownload ==
    [][/\ \A r \in Requests :
             /\ (Reaches(r, "dl_count") /\ req[r].note.isPremium) =>
                    /\ req[r].pc \in {"dl_debited", "dl_credited"}
                    /\ req[r].user # NoUser
                    /\ req[r].user.coins >= Price(r)
             /\ Reaches(r, "dl_debited") =>
                    /\ req[r].pc = "dl_debit"
                    /\ req[r].suser.id = Buyer(r)
                    /\ users'[Buyer(r)].coins = req[r].suser.coins - Price(r)
             /\ Reaches(r, "dl_credit") => req[r].pc = "dl_debited"
             /\ Reaches(r, "dl_credited") => req[r].pc = "dl_credit"
             /\ (req[r].pc # "done" /\ req'[r].status = 403) =>
                    UNCHANGED <<downloads, notes>>
             /\ (req[r].pc = "done" /\ req[r].status = 403) =>
                    req'[r] = req[r]
       /\ downloads' # downloads =>
             \E r \in Requests, d \in DOMAIN downloads' \ DOMAIN downloads :
                 /\ Reaches(r, "dl_count")
                 /\ downloads'[d].noteId = req[r].noteId
                 /\ downloads'[d].userId = req[r].userId
                 /\ DOMAIN downloads' = DOMAIN downloads \cup {d}]_vars

\* A download of a premium note with a price above 0 was recorded.
C15_Witness ==
    \E d \in DOMAIN downloads :
        /\ notes[downloads[d].noteId].isPremium
        /\ notes[downloads[d].noteId].coinPrice > 0

\* Download request r is a re-download of a premium note: its user had a
\* Download record for the note when the request arrived.
ReDownload(r) ==
    /\ req[r].kind = "download"
    /\ req[r].again
    /\ req[r].note.isPremium

\* C16: a re-download of a premium note by a user with enough coins is
\* charged and recorded again: it is not refused and skips no step, its
\* debit lowers the buyer's coins by the price, its credit raises the
\* seller's by the price, a further Download record is stored, and the
\* note's downloads rises by 1.
C16_ReDownloadRecharges ==
    [][\A r \in Requests : ReDownload(r) =>
          /\ (req[r].pc = "dl_check" /\ req'[r] # req[r]
              /\ req[r].user # NoUser /\ req[r].user.coins >= Price(r))
                => req'[r].pc = "dl_debit"
          /\ Moves(r, "dl_debit", "dl_debited")
                => users'[Buyer(r)].coins = users[Buyer(r)].coins - Price(r)
          /\ Moves(r, "dl_debited", "dl_credit") => Buyer(r) # Seller(r)
          /\ Moves(r, "dl_credit", "dl_credited")
                => users'[Seller(r)].coins = users[Seller(r)].coins + Price(r)
          /\ Reaches(r, "dl_count")
                => Cardinality(DownloadsBy(Buyer(r), req[r].noteId)')
                       = Cardinality(DownloadsBy(Buyer(r), req[r].noteId)) + 1
          /\ Moves(r, "dl_count", "done")
                => notes'[req[r].noteId].downloads
                       = notes[req[r].noteId].downloads + 1]_vars

\* listing is the first limit notes of the store's notes in the order
\* precedes, a set of pairs of note ids: it holds notes of the store, each
\* once, limit of them or all; it is in the order; and every note left out
\* comes after every note in it.
IsFirstOf(listing, limit, precedes) ==
    /\ \A i \in DOMAIN listing :
           listing[i].id \in DOMAIN notes /\ listing[i] = notes[listing[i].id]
    /\ \A i \in DOMAIN listing : \A j \in DOMAIN listing :
           i < j => <<listing[i].id, listing[j].id>> \in precedes
    /\ Len(listing) = (IF limit < Cardinality(DOMAIN notes) THEN limit
                       ELSE Cardinality(DOMAIN notes))
    /\ \A n \in DOMAIN notes \ IdsOf(listing) : \A i \in DOMAIN listing :
           <<listing[i].id, n>> \in precedes

\* Later createdAt first; of two notes with equal createdAt, the larger id.
NewerFirst ==
    {p \in (DOMAIN notes) \X (DOMAIN notes) :
        \/ notes[p[1]].createdAt > notes[p[2]].createdAt
        \/ notes[p[1]].createdAt = notes[p[2]].createdAt /\ p[1] > p[2]}

\* C19: recent(limit) returns the first limit notes of all notes sorted by
\* createdAt descending, two notes with equal createdAt ordered by id
\* descending.
C19_RecentOrder ==
    [][\A r \in Requests :
          (Reaches(r, "done") /\ req'[r].kind = "recent")
              => IsFirstOf(req'[r].result, req'[r].limit, NewerFirst)]_vars

\* Larger downloads + likes first; of two notes with equal sums, the one
\* stored first, which has the smaller id.
HigherScoreFirst ==
    {p \in (DOMAIN notes) \X (DOMAIN notes) :
        \/ Score(notes[p[1]]) > Score(notes[p[2]])
        \/ Score(notes[p[1]]) = Score(notes[p[2]]) /\ p[1] < p[2]}

\* C20: trending(limit) returns at most limit notes in non-increasing order
\* of downloads + likes, and the order is stable: notes with equal sums come
\* in the order of their ids, whatever likes and downloads have replaced
\* note records before, so the listing is determined by the notes' records
\* and calls with no change in between return the same sequence.
C20_TrendingOrder ==
    [][\A r \in Requests :
          (Reaches(r, "done") /\ req'[r].kind = "trending")
              => /\ Len(req'[r].result) <= req'[r].limit
                 /\ IsFirstOf(req'[r].result, req'[r].limit,
                              HigherScoreFirst)]_vars

\* A trending listing cut short by its limit was returned while two notes
\* had equal sums above 0, after a like or download replaced a record.
C20_Witness ==
    \E r \in Requests :
        /\ req[r].pc = "done"
        /\ req[r].kind = "trending"
        /\ Len(req[r].result) = req[r].limit
        /\ \E m \in DOMAIN notes, n \in DOMAIN notes :
               m # n /\ Score(notes[m]) = Score(notes[n]) /\ Score(notes[m]) > 0
        /\ \E q \in Requests :
               req[q].pc = "done" /\ req[q].kind = "none" /\ req[q].status = 200

\* More notes owned first; of two users owning equally many, the smaller id.
MoreNotesFirst ==
    {p \in (DOMAIN users) \X (DOMAIN users) :
        \/ UploadCount(users[p[1]]) > UploadCount(users[p[2]])
        \/ UploadCount(users[p[1]]) = UploadCount(users[p[2]]) /\ p[1] < p[2]}

\* listing is the first limit users of the store's users in the order
\* MoreNotesFirst.
IsTopContributors(listing, limit) ==
    /\ \A i \in DOMAIN listing :
           listing[i].id \in DOMAIN users /\ listing[i] = users[listing[i].id]
    /\ \A i \in DOMAIN listing : \A j \in DOMAIN listing :
           i < j => <<listing[i].id, listing[j].id>> \in MoreNotesFirst
    /\ Len(listing) = (IF limit < Cardinality(DOMAIN users) THEN limit
                       ELSE Cardinality(DOMAIN users))
    /\ \A u \in DOMAIN users \ IdsOf(listing) : \A i \in DOMAIN listing :
           <<listing[i].id, u>> \in MoreNotesFirst

\* C21: topContributors(limit) returns the first limit users of all users
\* sorted by the number of notes each owns, descending, users owning equally
\* many notes ordered by id ascending.
C21_TopContributorsOrder ==
    [][\A r \in Requests :
          (Reaches(r, "done") /\ req'[r].kind = "top")
              => IsTopContributors(req'[r].result, req'[r].limit)]_vars

\* A ranking cut short by its limit was returned while two users owned
\* equally many notes, at least one each, and user 2 had uploaded first.
C21_Witness ==
    \E r \in Requests :
        /\ req[r].pc = "done"
        /\ req[r].kind = "top"
        /\ Len(req[r].result) = req[r].limit
        /\ Len(req[r].result) < Cardinality(DOMAIN users)
        /\ \E u \in DOMAIN users, v \in DOMAIN users :
               /\ u # v
               /\ UploadCount(users[u]) = UploadCount(users[v])
               /\ UploadCount(users[u]) > 0
        /\ 1 \in DOMAIN notes /\ notes[1].userId = 2

\* C22: repliesFor(discussionId) returns exactly the replies whose
\* discussionId matches, each once, ordered by createdAt ascending, and a
\* reply created after another reply of the same discussion (it has the
\* larger id) never precedes it.
C22_RepliesOldestFirst ==
    [][\A r \in Requests :
          (Reaches(r, "done") /\ req'[r].kind = "replies")
              => LET listing == req'[r].result
                 IN  /\ \A i \in DOMAIN listing :
                            /\ listing[i].id \in DOMAIN discussionReplies
                            /\ listing[i] = discussionReplies[listing[i].id]
                     /\ IdsOf(listing) =
                            {i \in DOMAIN discussionReplies :
                                discussionReplies[i].discussionId
                                    = req'[r].discussionId}
                     /\ Len(listing) = Cardinality(IdsOf(listing))
                     /\ \A i \in DOMAIN listing : \A j \in DOMAIN listing :
                            i < j => /\ listing[i].createdAt
                                        <= listing[j].createdAt
                                     /\ listing[i].id < listing[j].id]_vars

\* The replies of a discussion were returned when it had two, created at
\* different times.
C22_Witness ==
    \E r \in Requests :
        /\ req[r].pc = "done"
        /\ req[r].kind = "replies"
        /\ Len(req[r].result) = 2
        /\ req[r].result[1].createdAt < req[r].result[2].createdAt

\* The Follow records of the ordered pair (followerId, followedId).
FollowsOf(followerId, followedId) ==
    {i \in DOMAIN follows : /\ follows[i].followerId = followerId
                            /\ follows[i].followedId = followedId}

\* C23: a follow request for (f, d) with f # d and d an existing user
\* creates the Follow record for (f, d) when none exists and removes it when
\* one exists, and the boolean it answers equals whether a Follow record for
\* (f, d) exists once it has completed.
C23_ToggleFollow ==
    [][\A r \in Requests :
          (req[r].kind = "follow" /\ Reaches(r, "done")
           /\ req'[r].status = 200)
              => LET before == FollowsOf(req[r].userId, req[r].followedId)
                     after == {i \in DOMAIN follows' :
                                 /\ follows'[i].followerId = req[r].userId
                                 /\ follows'[i].followedId = req[r].followedId}
                 IN  /\ Moves(r, "fo_toggle", "done")
                            => before = {} /\ Cardinality(after) = 1
                     /\ Moves(r, "fo_remove", "done") => after = {}
                     /\ req'[r].flag = (after # {})]_vars

\* C24: every core operation other than the coin charge and the download
\* record is idempotent: invoked a second time with the same arguments, it
\* leaves the store as the first invocation left it, so no step of the
\* retry changes the store.
C24_RetryChangesNothing ==
    [][req[1].pc = "done" => UNCHANGED store]_vars

IdsAssigned(records, currentId) ==
    \A k \in DOMAIN records : records[k].id = k /\ k < currentId

\* A record stored in this step has an id that the allocator had not passed
\* and has passed now, and the allocator never goes back.
IdsFresh(before, after, currentBefore, currentAfter) ==
    /\ currentAfter >= currentBefore
    /\ \A k \in DOMAIN after \ DOMAIN before :
           k >= currentBefore /\ k < currentAfter

\* C26: within each entity kind every create assigns an id strictly greater
\* than every id assigned earlier for that kind, so no two records of a kind
\* share an id and the id of a removed Like or Follow is never reused, also
\* when creates of the same kind interleave.
C26_IdsNeverReused ==
    /\ [](/\ IdsAssigned(users, currentUserId)
          /\ IdsAssigned(notes, currentNoteId)
          /\ IdsAssigned(downloads, currentDownloadId)
          /\ IdsAssigned(likes, currentLikeId)
          /\ IdsAssigned(follows, currentFollowId)
          /\ IdsAssigned(comments, currentCommentId)
          /\ IdsAssigned(discussions, currentDiscussionId)
          /\ IdsAssigned(discussionReplies, currentDiscussionReplyId))
    /\ [][/\ IdsFresh(users, users', currentUserId, currentUserId')
          /\ IdsFresh(notes, notes', currentNoteId, currentNoteId')
          /\ IdsFresh(downloads, downloads',
                      currentDownloadId, currentDownloadId')
          /\ IdsFresh(likes, likes', currentLikeId, currentLikeId')
          /\ IdsFresh(follows, follows', currentFollowId, currentFollowId')
          /\ IdsFresh(comments, comments',
                      currentCommentId, currentCommentId')
          /\ IdsFresh(discussions, discussions',
                      currentDiscussionId, currentDiscussionId')
          /\ IdsFresh(discussionReplies, discussionReplies',
                      currentDiscussionReplyId,
                      currentDiscussionReplyId')]_vars

\* Like 1 was removed and a Like was created after it, under id 2.
C26_Witness ==
    /\ 1 \notin DOMAIN likes
    /\ 2 \in DOMAIN likes

\* Request r arrives in this step and names a note, a discussion or a user
\* to follow that the store does not hold.
ArrivesNamingMissing(r) ==
    /\ req[r].pc = "idle"
    /\ \/ /\ req'[r].kind \in {"like", "download", "comment"}
          /\ req'[r].noteId \notin DOMAIN notes
       \/ /\ req'[r].kind = "reply"
          /\ req'[r].discussionId \notin DOMAIN discussions
       \/ /\ req'[r].kind = "follow"
          /\ req'[r].followedId \notin DOMAIN users
          /\ req'[r].followedId # req'[r].userId

\* Request r waits with the lookup that found nothing.
FoundNothing(r) ==
    \/ req[r].pc \in {"lk_note", "dl_note", "cm_note"} /\ req[r].note = NoNote
    \/ req[r].pc = "rp_disc" /\ req[r].discussion = NoDiscussion
    \/ req[r].pc = "fo_user" /\ req[r].user = NoUser

\* C27: a like, download, comment or reply request that names a note or
\* discussion that does not exist, and a follow request that names a user
\* that does not exist, is answered NotFound (404) in its next step, and
\* neither of its steps changes a collection, a counter or a balance.
C27_MissingIsNotFound ==
    [][\A r \in Requests :
          /\ ArrivesNamingMissing(r) => FoundNothing(r)' /\ UNCHANGED store
          /\ (FoundNothing(r) /\ req'[r] # req[r])
                => /\ req'[r].pc = "done"
                   /\ req'[r].status = 404
                   /\ UNCHANGED store]_vars

\* A request that named a record the store does not hold has been answered
\* 404 while the other request is under way.
C27_Witness ==
    \E r \in Requests, q \in Requests :
        /\ req[r].pc = "done"
        /\ req[r].status = 404
        /\ req[q].pc \notin {"idle", "done"}

\* Every record held before the step is held after it, under the same id.
Kept(before, after) ==
    \A k \in DOMAIN before : k \in DOMAIN after /\ after[k].id = before[k].id

\* C28: only Like and Follow records are ever removed.  A User, Note,
\* Comment, Download, Discussion or DiscussionReply that exists in a state
\* exists with the same id in every later state, and a Like or Follow
\* disappears only in the step of a request that toggles its own pair off.
C28_OnlyTogglesRemove ==
    [][/\ Kept(users, users')
       /\ Kept(notes, notes')
       /\ Kept(comments, comments')
       /\ Kept(downloads, downloads')
       /\ Kept(discussions, discussions')
       /\ Kept(discussionReplies, discussionReplies')
       /\ \A k \in DOMAIN likes \ DOMAIN likes' :
              \E r \in Requests :
                  /\ Moves(r, "lk_toggle", "lk_count")
                  /\ req[r].existing = k
                  /\ req[r].userId = likes[k].userId
                  /\ req[r].noteId = likes[k].noteId
       /\ \A k \in DOMAIN follows \ DOMAIN follows' :
              \E r \in Requests :
                  /\ Moves(r, "fo_remove", "done")
                  /\ req[r].existing = k
                  /\ req[r].userId = follows[k].followerId
                  /\ req[r].followedId = follows[k].followedId]_vars

\* A Like created after Like 1 has been removed again, and Like 1 is held.
C28_Witness ==
    /\ currentLikeId > 2
    /\ DOMAIN likes = {1}

\* C29: a counter update on a note touches only its own field.  The step
\* that writes a download's count leaves the likes of every note as they
\* are, and the step that writes a like's count leaves the downloads as
\* they are, also when a like and a download of the same note interleave.
C29_CounterUpdateOwnField ==
    [][\A r \in Requests :
          /\ Moves(r, "dl_count", "done")
                => \A n \in DOMAIN notes : notes'[n].likes = notes[n].likes
          /\ Moves(r, "lk_count", "done")
                => \A n \in DOMAIN notes :
                       notes'[n].downloads = notes[n].downloads]_vars

\* The sum of the coins of the users us.
RECURSIVE CoinsOf(_)
CoinsOf(us) ==
    IF DOMAIN us = {} THEN 0
    ELSE LET u == CHOOSE v \in DOMAIN us : TRUE
         IN  us[u].coins + CoinsOf([v \in DOMAIN us \ {u} |-> us[v]])

\* C30: downloads never create coins.  The debit of a download lowers the
\* sum of all users' coins by the price and the credit to another owner
\* gives the price back, so a completed download leaves the sum unchanged
\* when the note is free or the buyer is not the owner and lowers it by the
\* price when the owner downloads their own premium note; no other step of
\* a download changes the sum, and the sum rises only by an upload's award
\* or by the credit of a price debited before.
C30_DownloadsCreateNoCoins ==
    [][/\ \A r \in Requests :
              /\ Moves(r, "dl_debit", "dl_debited")
                    => CoinsOf(users') = CoinsOf(users) - Price(r)
              /\ Moves(r, "dl_credit", "dl_credited")
                    => CoinsOf(users') = CoinsOf(users) + Price(r)
       /\ CoinsOf(users') > CoinsOf(users)
              => \E r \in Requests :
                     \/ Moves(r, "up_coins", "done")
                     \/ Moves(r, "dl_credit", "dl_credited")
                           /\ Price(r) > 0]_vars

====
